---- MODULE Spec2Model ----
(***************************************************************************)
(* Virtual Fitting Room (src/src/app.py): one Streamlit script run as a    *)
(* sequence of steps over the session state, the files on disk and the     *)
(* images the run holds.  Images live in a heap of pixel buffers so that   *)
(* copying and in-place pasting can be told apart.                         *)
(***************************************************************************)
EXTENDS Integers, Sequences, FiniteSets, TLC

\* ------------------------------------------------------------------ bounds
\* Largest user photo (base image) width and height.
MaxW == 2
MaxH == 2
\* Largest clothing image width and height in the small family.
MaxCW == 2
MaxCH == 1

\* ------------------------------------------------- the Size slider (line 133)
\* st.sidebar.slider("Size", 0.1, 5.0, 1.0, 0.05): the value is k * 0.05 for an
\* integer k, delivered as the double nearest to the two-decimal number.
\* scale is kept as k, in twentieths.
ScaleDen == 20
MinScaleK == 2
MaxScaleK == 100
ScaleValues == MinScaleK..MaxScaleK

\* ------------------------------------------------------------ arithmetic
Abs(n) == IF n < 0 THEN -n ELSE n

RECURSIVE Pow2(_)
Pow2(n) == IF n <= 0 THEN 1 ELSE 2 * Pow2(n - 1)

\* floor(log2(num/den)) for num, den > 0
RECURSIVE FloorLog2(_, _)
FloorLog2(num, den) ==
  IF num >= den
  THEN IF num >= 2 * den THEN 1 + FloorLog2(num, 2 * den) ELSE 0
  ELSE FloorLog2(2 * num, den) - 1

\* 2^n mod m
RECURSIVE Pow2Mod(_, _)
Pow2Mod(n, m) == IF n = 0 THEN 1 % m ELSE (2 * Pow2Mod(n - 1, m)) % m

IsPow2(n) == n >= 1 /\ Pow2(FloorLog2(n, 1)) = n

\* The double nearest to k/20 is (k * 2^s + ScaleErr(k)) / (20 * 2^s) with
\* s = 52 - floor(log2(k/20)): ScaleErr(k) is the representation error of the
\* float scale, in units of 1/20 of its last mantissa bit (-10 < ScaleErr < 10).
ScaleErr(k) ==
  LET s == 52 - FloorLog2(k, ScaleDen)
      m == (k * Pow2Mod(s, ScaleDen)) % ScaleDen
  IN IF 2 * m < ScaleDen THEN -m ELSE ScaleDen - m

\* int(dim * scale) of lines 138-139 as Python computes it: the product of the
\* int and the double scale, rounded to double (nearest, ties to even), then
\* truncated.  The rounding only matters when dim * k / 20 is an integer n the
\* exact product falls short of: the result is n unless the shortfall exceeds
\* half the spacing of the doubles just below n.
\* (IntTimesScaleBug: the product rounded half up instead of truncated.)
IntTimesScaleBug(dim, k) == (2 * dim * k + ScaleDen) \div (2 * ScaleDen)
IntTimesScale(dim, k) ==
  LET q == (dim * k) \div ScaleDen
      r == ScaleErr(k)
      ek == FloorLog2(k, ScaleDen)
      en == FloorLog2(q, 1)
      below == IF IsPow2(q) THEN 2 ELSE 1
  IN IF (dim * k) % ScaleDen # 0 \/ r >= 0 \/ q = 0
     THEN q
     ELSE IF 2 * Abs(dim * r) * below > ScaleDen * Pow2(en - ek) THEN q - 1 ELSE q

\* ------------------------------------------------------------------ images
\* The modes PIL decodes from the png/jpg/jpeg files the app accepts: bilevel
\* ("1"), greyscale (L), greyscale with alpha (LA), palette (P), RGB, RGBA,
\* 16-bit greyscale (I;16; "I" in old releases) and CMYK.  The app converts no
\* image on loading.  A pixel is the tuple of its bands; a P pixel is its
\* palette index.
Modes == {"1", "L", "LA", "P", "RGB", "RGBA", "I;16", "CMYK"}
Bands(mode) ==
  CASE mode \in {"1", "L", "P", "I;16"} -> 1
    [] mode = "LA" -> 2
    [] mode = "RGB" -> 3
    [] OTHER -> 4
Coords(w, h) == (0..(w - 1)) \X (0..(h - 1))

\* An image object: its pixel buffer (an index into heap), size, mode, palette
\* (the RGB entries of a P image) and info["transparency"] (the alphas of the
\* palette entries of a P image, the transparent colour of an RGB image).
\* NoImage stands for Python's None.
NoImage ==
  [buf |-> 0, w |-> 0, h |-> 0, mode |-> "None", palette |-> <<>>,
   transparency |-> <<>>]
IsImage(img) == img.mode # "None"

\* What a path on disk holds: nothing, bytes PIL cannot identify, or an image.
\* alpha tells the transparency of the image: "none", "opaque", "clear" (alpha
\* 0 everywhere), "mixed", or "key" (an RGB PNG with a transparent colour).
MissingFile ==
  [status |-> "missing", w |-> 0, h |-> 0, mode |-> "None", alpha |-> "none",
   seed |-> 0, flat |-> FALSE]
BadFile ==
  [status |-> "bad", w |-> 0, h |-> 0, mode |-> "None", alpha |-> "none",
   seed |-> 0, flat |-> FALSE]
ImageFile(w, h, mode, alpha, seed) ==
  [status |-> "ok", w |-> w, h |-> h, mode |-> mode, alpha |-> alpha,
   seed |-> seed, flat |-> FALSE]
\* An image file of one colour.
FlatFile(w, h, mode, alpha, seed) ==
  [ImageFile(w, h, mode, alpha, seed) EXCEPT !.flat = TRUE]

\* Pixel contents of the files: every position gets its own colour so that a
\* pixel copied from the wrong place shows (a flat file has the colour of its
\* first pixel everywhere).
PaletteSize == 4
Colour(seed, x, y, b) == (seed + 37 * x + 101 * y + 59 * b) % 256
AlphaAt(alpha, x, y) ==
  CASE alpha = "clear" -> 0
    [] alpha = "mixed" -> <<0, 64, 255, 191>>[((x + y) % 4) + 1]
    [] OTHER -> 255
PixelOf(mode, alpha, seed, x, y) ==
  CASE mode = "1" -> <<255 * (Colour(seed, x, y, 1) % 2)>>
    [] mode = "P" -> <<Colour(seed, x, y, 1) % PaletteSize>>
    [] mode = "I;16" -> <<257 * Colour(seed, x, y, 1)>>
    [] mode = "LA" -> <<Colour(seed, x, y, 1), AlphaAt(alpha, x, y)>>
    [] OTHER ->
         [b \in 1..Bands(mode) |->
            IF mode = "RGBA" /\ b = 4 THEN AlphaAt(alpha, x, y)
            ELSE Colour(seed, x, y, b)]
Pixels(file) ==
  [p \in Coords(file.w, file.h) |->
     IF file.flat
     THEN PixelOf(file.mode, file.alpha, file.seed, 0, 0)
     ELSE PixelOf(file.mode, file.alpha, file.seed, p[1], p[2])]
\* The PLTE chunk of a palette PNG, and the tRNS chunk of a PNG that has one.
FilePalette(file) ==
  IF file.mode = "P"
  THEN [i \in 1..PaletteSize |->
          <<Colour(file.seed, i, 7, 1), Colour(file.seed, i, 7, 2),
            Colour(file.seed, i, 7, 3)>>]
  ELSE <<>>
FileTransparency(file) ==
  CASE file.mode = "P" /\ file.alpha = "mixed" -> <<0, 64, 255, 191>>
    [] file.mode = "RGB" /\ file.alpha = "key" ->
         PixelOf("RGB", "none", file.seed, 0, 0)
    [] OTHER -> <<>>

\* ------------------------------------------------------ PIL operations
\* The heap maps the identities of the live pixel buffers to their pixels.
EmptyHeap == <<>>
FreshBuf(h) ==
  IF DOMAIN h = {} THEN 1 ELSE 1 + CHOOSE i \in DOMAIN h : \A j \in DOMAIN h : j <= i

\* A new image gets a buffer no live image has.
Alloc(h, w, ht, mode, pix) ==
  [heap |-> h @@ (FreshBuf(h) :> pix),
   img |-> [buf |-> FreshBuf(h), w |-> w, h |-> ht, mode |-> mode,
            palette |-> <<>>, transparency |-> <<>>]]
\* Image._new: a new image with the mode, palette and info of the image it is
\* made from.
Image_new(h, from, w, ht, pix) ==
  LET r == Alloc(h, w, ht, from.mode, pix)
  IN [heap |-> r.heap,
      img |-> [r.img EXCEPT !.palette = from.palette,
                            !.transparency = from.transparency]]

\* Buffers are freed with the last name that refers to their image: what stays
\* is what the images in imgs hold.
Keep(h, imgs) == [i \in {im.buf : im \in imgs} \cap DOMAIN h |-> h[i]]

\* Image.open(path) of load_image (lines 20-21, size is never passed): the
\* decoded file in a fresh buffer, in the mode of the file.
Image_open(h, file) ==
  LET r == Alloc(h, file.w, file.h, file.mode, Pixels(file))
  IN [heap |-> r.heap,
      img |-> [r.img EXCEPT !.palette = FilePalette(file),
                            !.transparency = FileTransparency(file)]]

\* load_image (lines 18-27): None with an error message when the file does not
\* exist; PIL's UnidentifiedImageError is no FileNotFoundError and escapes.
load_image(h, file) ==
  CASE file.status = "missing" ->
         [outcome |-> "none", heap |-> h, img |-> NoImage]
    [] file.status = "bad" ->
         [outcome |-> "raise", heap |-> h, img |-> NoImage]
    [] OTHER ->
         LET r == Image_open(h, file)
         IN [outcome |-> "image", heap |-> r.heap, img |-> r.img]

\* st.image(img) (lines 80, 114, 149): Streamlit encodes the image as PNG when
\* its mode can hold transparency (RGBA, LA, P) and as JPEG otherwise; the JPEG
\* writer has no 16-bit greyscale and raises OSError("cannot write mode I;16 as
\* JPEG").
CanShow(mode) == mode # "I;16"

\* Image.save(..., "PNG") (lines 85 and 155): the PNG writer has no CMYK, it
\* raises OSError("cannot write mode CMYK as PNG").
CanWritePNG(mode) == mode # "CMYK"

\* background_img.copy() (line 32): the same pixels in a buffer of its own.
\* (Image_copy_alias: no copy, the same image again.)
Image_copy_alias(h, img) == [heap |-> h, img |-> img]
Image_copy(h, img) == Image_new(h, img, img.w, img.h, h[img.buf])

Clip8(v) == IF v < 0 THEN 0 ELSE IF v > 255 THEN 255 ELSE v

\* PIL's division by 255 of a product of two bytes (MULDIV255, DIV255).
DIV255(a) == LET tmp == a + 128 IN ((tmp \div 256) + tmp) \div 256

\* The ITU-R 601-2 luma of an RGB colour (L24(rgb) >> 16 of Convert.c).
Luma(px) == (px[1] * 19595 + px[2] * 38470 + px[3] * 7471 + 32768) \div 65536

\* One pixel of img as convert("RGBA") gives it (Convert.c): RGB gets alpha
\* 255, or alpha 0 where the colour is the transparent colour of the image;
\* L, LA and 1 repeat their grey; CMYK is K-weighted and inverted; P is looked
\* up in the palette, with the alpha of the entry.  (An I;16 image never gets
\* here: showing it has raised.)
ToRGBA(px, img) ==
  CASE img.mode = "RGBA" -> px
    [] img.mode = "RGB" ->
         <<px[1], px[2], px[3],
           IF img.transparency # <<>> /\ <<px[1], px[2], px[3]>> = img.transparency
           THEN 0 ELSE 255>>
    [] img.mode = "L" -> <<px[1], px[1], px[1], 255>>
    [] img.mode = "1" -> LET v == IF px[1] # 0 THEN 255 ELSE 0 IN <<v, v, v, 255>>
    [] img.mode = "LA" -> <<px[1], px[1], px[1], px[2]>>
    [] img.mode = "CMYK" ->
         LET nk == 255 - px[4]
         IN <<Clip8(nk - DIV255(px[1] * nk)), Clip8(nk - DIV255(px[2] * nk)),
              Clip8(nk - DIV255(px[3] * nk)), 255>>
    [] img.mode = "P" ->
         LET i == px[1] + 1
         IN IF i > Len(img.palette) THEN <<0, 0, 0, 255>>
            ELSE img.palette[i] \o
                   <<IF i <= Len(img.transparency) THEN img.transparency[i] ELSE 255>>

\* overlay_img.convert("RGBA") (line 34): a new image, without palette and
\* transparency info.
Image_convert_RGBA(h, img) ==
  Alloc(h, img.w, img.h, "RGBA",
        [p \in Coords(img.w, img.h) |-> ToRGBA(h[img.buf][p], img)])

\* The LANCZOS filter of Image.resize as Resample.c applies it.  For an output
\* pixel the filter reads the source pixels xmin .. xmin + Len(k) - 1 with the
\* weights k: the windowed sinc at the pixel centres, normalised to sum 1 and
\* rounded to fixed point with 22 fractional bits.  LanczosCoeffs lists the
\* weights (precompute_coeffs, normalize_coeffs_8bpc) for source lengths 2 and
\* 3 and every output length up to five times the source; a source of one pixel
\* has the single weight 1.
PrecisionOne == 4194304
LanczosCoeffs ==
  <<2, 1>> :> <<
      [xmin |-> 0, k |-> <<2097152, 2097152>>]>> @@
  <<2, 3>> :> <<
      [xmin |-> 0, k |-> <<4715023, -520719>>],
      [xmin |-> 0, k |-> <<2097152, 2097152>>],
      [xmin |-> 0, k |-> <<-520719, 4715023>>]>> @@
  <<2, 4>> :> <<
      [xmin |-> 0, k |-> <<4930311, -736007>>],
      [xmin |-> 0, k |-> <<3217574, 976730>>],
      [xmin |-> 0, k |-> <<976730, 3217574>>],
      [xmin |-> 0, k |-> <<-736007, 4930311>>]>> @@
  <<2, 5>> :> <<
      [xmin |-> 0, k |-> <<5044681, -850377>>],
      [xmin |-> 0, k |-> <<3828486, 365818>>],
      [xmin |-> 0, k |-> <<2097152, 2097152>>],
      [xmin |-> 0, k |-> <<365818, 3828486>>],
      [xmin |-> 0, k |-> <<-850377, 5044681>>]>> @@
  <<2, 6>> :> <<
      [xmin |-> 0, k |-> <<5114765, -920461>>],
      [xmin |-> 0, k |-> <<4194304, 0>>],
      [xmin |-> 0, k |-> <<2853566, 1340738>>],
      [xmin |-> 0, k |-> <<1340738, 2853566>>],
      [xmin |-> 0, k |-> <<0, 4194304>>],
      [xmin |-> 0, k |-> <<-920461, 5114765>>]>> @@
  <<2, 7>> :> <<
      [xmin |-> 0, k |-> <<5161823, -967519>>],
      [xmin |-> 0, k |-> <<4431774, -237470>>],
      [xmin |-> 0, k |-> <<3368835, 825469>>],
      [xmin |-> 0, k |-> <<2097152, 2097152>>],
      [xmin |-> 0, k |-> <<825469, 3368835>>],
      [xmin |-> 0, k |-> <<-237470, 4431774>>],
      [xmin |-> 0, k |-> <<-967519, 5161823>>]>> @@
  <<2, 8>> :> <<
      [xmin |-> 0, k |-> <<5195484, -1001180>>],
      [xmin |-> 0, k |-> <<4595914, -401610>>],
      [xmin |-> 0, k |-> <<3731444, 462860>>],
      [xmin |-> 0, k |-> <<2666983, 1527321>>],
      [xmin |-> 0, k |-> <<1527321, 2666983>>],
      [xmin |-> 0, k |-> <<462860, 3731444>>],
      [xmin |-> 0, k |-> <<-401610, 4595914>>],
      [xmin |-> 0, k |-> <<-1001180, 5195484>>]>> @@
  <<2, 9>> :> <<
      [xmin |-> 0, k |-> <<5220702, -1026398>>],
      [xmin |-> 0, k |-> <<4715023, -520719>>],
      [xmin |-> 0, k |-> <<3995641, 198663>>],
      [xmin |-> 0, k |-> <<3097820, 1096484>>],
      [xmin |-> 0, k |-> <<2097152, 2097152>>],
      [xmin |-> 0, k |-> <<1096484, 3097820>>],
      [xmin |-> 0, k |-> <<198663, 3995641>>],
      [xmin |-> 0, k |-> <<-520719, 4715023>>],
      [xmin |-> 0, k |-> <<-1026398, 5220702>>]>> @@
  <<2, 10>> :> <<
      [xmin |-> 0, k |-> <<5240273, -1045969>>],
      [xmin |-> 0, k |-> <<4804828, -610524>>],
      [xmin |-> 0, k |-> <<4194304, 0>>],
      [xmin |-> 0, k |-> <<3428412, 765892>>],
      [xmin |-> 0, k |-> <<2553955, 1640349>>],
      [xmin |-> 0, k |-> <<1640349, 2553955>>],
      [xmin |-> 0, k |-> <<765892, 3428412>>],
      [xmin |-> 0, k |-> <<0, 4194304>>],
      [xmin |-> 0, k |-> <<-610524, 4804828>>],
      [xmin |-> 0, k |-> <<-1045969, 5240273>>]>> @@
  <<3, 1>> :> <<
      [xmin |-> 0, k |-> <<1296896, 1600512, 1296896>>]>> @@
  <<3, 2>> :> <<
      [xmin |-> 0, k |-> <<2742406, 1754765, -302866>>],
      [xmin |-> 0, k |-> <<-302866, 1754765, 2742406>>]>> @@
  <<3, 4>> :> <<
      [xmin |-> 0, k |-> <<4492385, -392563, 94482>>],
      [xmin |-> 0, k |-> <<1740598, 3039405, -585699>>],
      [xmin |-> 0, k |-> <<-585699, 3039405, 1740598>>],
      [xmin |-> 0, k |-> <<94482, -392563, 4492385>>]>> @@
  <<3, 5>> :> <<
      [xmin |-> 0, k |-> <<4647556, -590540, 137288>>],
      [xmin |-> 0, k |-> <<2815995, 1808651, -430341>>],
      [xmin |-> 0, k |-> <<0, 4194304, 0>>],
      [xmin |-> 0, k |-> <<-430341, 1808651, 2815995>>],
      [xmin |-> 0, k |-> <<137288, -590540, 4647556>>]>> @@
  <<3, 6>> :> <<
      [xmin |-> 0, k |-> <<4742290, -707939, 159953>>],
      [xmin |-> 0, k |-> <<3417235, 1037340, -260271>>],
      [xmin |-> 0, k |-> <<1103050, 3633700, -542446>>],
      [xmin |-> 0, k |-> <<-542446, 3633700, 1103050>>],
      [xmin |-> 0, k |-> <<-260271, 1037340, 3417235>>],
      [xmin |-> 0, k |-> <<159953, -707939, 4742290>>]>> @@
  <<3, 7>> :> <<
      [xmin |-> 0, k |-> <<4806022, -785004, 173286>>],
      [xmin |-> 0, k |-> <<3782888, 551220, -139804>>],
      [xmin |-> 0, k |-> <<2010640, 2753150, -569486>>],
      [xmin |-> 0, k |-> <<0, 4194304, 0>>],
      [xmin |-> 0, k |-> <<-569486, 2753150, 2010640>>],
      [xmin |-> 0, k |-> <<-139804, 551220, 3782888>>],
      [xmin |-> 0, k |-> <<173286, -785004, 4806022>>]>> @@
  <<3, 8>> :> <<
      [xmin |-> 0, k |-> <<4851787, -839224, 181741>>],
      [xmin |-> 0, k |-> <<4024345, 227384, -57425>>],
      [xmin |-> 0, k |-> <<2649595, 2013370, -468661>>],
      [xmin |-> 0, k |-> <<793938, 3868488, -468122>>],
      [xmin |-> 0, k |-> <<-468122, 3868488, 793938>>],
      [xmin |-> 0, k |-> <<-468661, 2013370, 2649595>>],
      [xmin |-> 0, k |-> <<-57425, 227384, 4024345>>],
      [xmin |-> 0, k |-> <<181741, -839224, 4851787>>]>> @@
  <<3, 9>> :> <<
      [xmin |-> 0, k |-> <<4886227, -879333, 187410>>],
      [xmin |-> 0, k |-> <<4194304, 0, 0>>],
      [xmin |-> 0, k |-> <<3096179, 1454728, -356604>>],
      [xmin |-> 0, k |-> <<1527794, 3251689, -585179>>],
      [xmin |-> 0, k |-> <<0, 4194304, 0>>],
      [xmin |-> 0, k |-> <<-585179, 3251689, 1527794>>],
      [xmin |-> 0, k |-> <<-356604, 1454728, 3096179>>],
      [xmin |-> 0, k |-> <<0, 0, 4194304>>],
      [xmin |-> 0, k |-> <<187410, -879333, 4886227>>]>> @@
  <<3, 10>> :> <<
      [xmin |-> 0, k |-> <<4913073, -910149, 191380>>],
      [xmin |-> 0, k |-> <<4319892, -166769, 41181>>],
      [xmin |-> 0, k |-> <<3417235, 1037340, -260271>>],
      [xmin |-> 0, k |-> <<2116848, 2635894, -558438>>],
      [xmin |-> 0, k |-> <<616132, 3982529, -404357>>],
      [xmin |-> 0, k |-> <<-404357, 3982529, 616132>>],
      [xmin |-> 0, k |-> <<-558438, 2635894, 2116848>>],
      [xmin |-> 0, k |-> <<-260271, 1037340, 3417235>>],
      [xmin |-> 0, k |-> <<41181, -166769, 4319892>>],
      [xmin |-> 0, k |-> <<191380, -910149, 4913073>>]>> @@
  <<3, 11>> :> <<
      [xmin |-> 0, k |-> <<4934584, -934536, 194256>>],
      [xmin |-> 0, k |-> <<4416243, -293479, 71540>>],
      [xmin |-> 0, k |-> <<3655901, 720956, -182553>>],
      [xmin |-> 0, k |-> <<2571970, 2107327, -484993>>],
      [xmin |-> 0, k |-> <<1218088, 3536342, -560126>>],
      [xmin |-> 0, k |-> <<0, 4194304, 0>>],
      [xmin |-> 0, k |-> <<-560126, 3536342, 1218088>>],
      [xmin |-> 0, k |-> <<-484993, 2107327, 2571970>>],
      [xmin |-> 0, k |-> <<-182553, 720956, 3655901>>],
      [xmin |-> 0, k |-> <<71540, -293479, 4416243>>],
      [xmin |-> 0, k |-> <<194256, -934536, 4934584>>]>> @@
  <<3, 12>> :> <<
      [xmin |-> 0, k |-> <<4952203, -954299, 196400>>],
      [xmin |-> 0, k |-> <<4492385, -392563, 94482>>],
      [xmin |-> 0, k |-> <<3838882, 476187, -120765>>],
      [xmin |-> 0, k |-> <<2923456, 1674197, -403349>>],
      [xmin |-> 0, k |-> <<1740598, 3039405, -585699>>],
      [xmin |-> 0, k |-> <<501877, 4045982, -353555>>],
      [xmin |-> 0, k |-> <<-353555, 4045982, 501877>>],
      [xmin |-> 0, k |-> <<-585699, 3039405, 1740598>>],
      [xmin |-> 0, k |-> <<-403349, 1674197, 2923456>>],
      [xmin |-> 0, k |-> <<-120765, 476187, 3838882>>],
      [xmin |-> 0, k |-> <<94482, -392563, 4492385>>],
      [xmin |-> 0, k |-> <<196400, -954299, 4952203>>]>> @@
  <<3, 13>> :> <<
      [xmin |-> 0, k |-> <<4966898, -970629, 198035>>],
      [xmin |-> 0, k |-> <<4554013, -471907, 112198>>],
      [xmin |-> 0, k |-> <<3982964, 282891, -71551>>],
      [xmin |-> 0, k |-> <<3198441, 1323010, -327146>>],
      [xmin |-> 0, k |-> <<2173504, 2572340, -551540>>],
      [xmin |-> 0, k |-> <<1006615, 3711376, -523687>>],
      [xmin |-> 0, k |-> <<0, 4194304, 0>>],
      [xmin |-> 0, k |-> <<-523687, 3711376, 1006615>>],
      [xmin |-> 0, k |-> <<-551540, 2572340, 2173504>>],
      [xmin |-> 0, k |-> <<-327146, 1323010, 3198441>>],
      [xmin |-> 0, k |-> <<-71551, 282891, 3982964>>],
      [xmin |-> 0, k |-> <<112198, -471907, 4554013>>],
      [xmin |-> 0, k |-> <<198035, -970629, 4966898>>]>> @@
  <<3, 14>> :> <<
      [xmin |-> 0, k |-> <<4979340, -984342, 199306>>],
      [xmin |-> 0, k |-> <<4604879, -536713, 126138>>],
      [xmin |-> 0, k |-> <<4099016, 127328, -32040>>],
      [xmin |-> 0, k |-> <<3417235, 1037340, -260271>>],
      [xmin |-> 0, k |-> <<2527077, 2161194, -493967>>],
      [xmin |-> 0, k |-> <<1466830, 3310122, -582648>>],
      [xmin |-> 0, k |-> <<422696, 4084769, -313161>>],
      [xmin |-> 0, k |-> <<-313161, 4084769, 422696>>],
      [xmin |-> 0, k |-> <<-582648, 3310122, 1466830>>],
      [xmin |-> 0, k |-> <<-493967, 2161194, 2527077>>],
      [xmin |-> 0, k |-> <<-260271, 1037340, 3417235>>],
      [xmin |-> 0, k |-> <<-32040, 127328, 4099016>>],
      [xmin |-> 0, k |-> <<126138, -536713, 4604879>>],
      [xmin |-> 0, k |-> <<199306, -984342, 4979340>>]>> @@
  <<3, 15>> :> <<
      [xmin |-> 0, k |-> <<4990009, -996016, 200311>>],
      [xmin |-> 0, k |-> <<4647556, -590540, 137288>>],
      [xmin |-> 0, k |-> <<4194304, 0, 0>>],
      [xmin |-> 0, k |-> <<3594330, 802957, -202983>>],
      [xmin |-> 0, k |-> <<2815995, 1808651, -430341>>],
      [xmin |-> 0, k |-> <<1867300, 2907309, -580305>>],
      [xmin |-> 0, k |-> <<854659, 3825765, -486120>>],
      [xmin |-> 0, k |-> <<0, 4194304, 0>>],
      [xmin |-> 0, k |-> <<-486120, 3825765, 854659>>],
      [xmin |-> 0, k |-> <<-580305, 2907309, 1867300>>],
      [xmin |-> 0, k |-> <<-430341, 1808651, 2815995>>],
      [xmin |-> 0, k |-> <<-202983, 802957, 3594330>>],
      [xmin |-> 0, k |-> <<0, 0, 4194304>>],
      [xmin |-> 0, k |-> <<137288, -590540, 4647556>>],
      [xmin |-> 0, k |-> <<200311, -996016, 4990009>>]>>
Coeffs(inSize, outSize) ==
  IF inSize = 1
  THEN [xx \in 1..outSize |-> [xmin |-> 0, k |-> <<PrecisionOne>>]]
  ELSE LanczosCoeffs[<<inSize, outSize>>]

\* One band of one output pixel: the weighted sum of the source pixels along
\* the axis (from (x0, y0) in steps of (dx, dy)), rounded and clipped to a byte.
RECURSIVE WeightedSum(_, _, _, _, _, _, _, _)
WeightedSum(pix, b, x0, y0, dx, dy, k, n) ==
  IF n = 0 THEN 0
  ELSE pix[<<x0 + (n - 1) * dx, y0 + (n - 1) * dy>>][b] * k[n]
         + WeightedSum(pix, b, x0, y0, dx, dy, k, n - 1)
ResampleBand(pix, b, x0, y0, dx, dy, k) ==
  Clip8((PrecisionOne \div 2 + WeightedSum(pix, b, x0, y0, dx, dy, k, Len(k)))
          \div PrecisionOne)

\* ImagingResampleHorizontal_8bpc / ImagingResampleVertical_8bpc
ResampleHorizontal(pix, w, ht, w2) ==
  LET cs == Coeffs(w, w2)
  IN [p \in Coords(w2, ht) |->
        LET c == cs[p[1] + 1]
        IN [b \in DOMAIN pix[<<0, 0>>] |->
              ResampleBand(pix, b, c.xmin, p[2], 1, 0, c.k)]]
ResampleVertical(pix, w, ht, ht2) ==
  LET cs == Coeffs(ht, ht2)
  IN [p \in Coords(w, ht2) |->
        LET c == cs[p[2] + 1]
        IN [b \in DOMAIN pix[<<0, 0>>] |->
              ResampleBand(pix, b, p[1], c.xmin, 0, 1, c.k)]]

\* ImagingResample: the horizontal pass, then the vertical pass on its result;
\* a pass is left out when its axis keeps its length.  The weights of an
\* output pixel sum to 1 within the rounding of the fixed point (off by less
\* than one count per weight, against a rounding margin of 2^21), so an image
\* of one colour comes out in that colour for every source length; the passes
\* are computed for the source lengths LanczosCoeffs lists.
ImagingResample(pix, w, ht, w2, ht2) ==
  LET across == IF w2 # w THEN ResampleHorizontal(pix, w, ht, w2) ELSE pix
  IN IF \A p \in DOMAIN pix : pix[p] = pix[<<0, 0>>]
     THEN [p \in Coords(w2, ht2) |-> pix[<<0, 0>>]]
     ELSE IF ht2 # ht THEN ResampleVertical(across, w2, ht, ht2) ELSE across

\* Images with alpha (LA, RGBA) are resized with premultiplied alpha:
\* convert("La" / "RGBa") before, convert back after.  n is the alpha band.
Premultiply(px, n) ==
  [b \in 1..n |-> IF b = n THEN px[n] ELSE DIV255(px[b] * px[n])]
Unpremultiply(px, n) ==
  IF px[n] = 255 \/ px[n] = 0 THEN px
  ELSE [b \in 1..n |-> IF b = n THEN px[n] ELSE Clip8((255 * px[b]) \div px[n])]

\* The NEAREST filter (ImagingScaleAffine): output position x reads the source
\* at (int) of a coordinate that starts at in/out * 0.5 and grows by in/out
\* per step, all in doubles.  That is the source pixel under the centre of the
\* output pixel, except where the accumulated sum falls just short of a whole
\* number (NearestShort lists these for source lengths up to 7).
NearestShort ==
  {<<2, 7, 3>>, <<4, 6, 4>>, <<4, 7, 3>>, <<4, 10, 7>>, <<4, 14, 3>>,
   <<4, 14, 10>>, <<4, 15, 7>>, <<6, 9, 4>>, <<6, 11, 5>>, <<6, 15, 7>>,
   <<6, 21, 3>>, <<6, 21, 10>>, <<6, 21, 17>>, <<6, 23, 11>>}
NearestIndex(inSize, outSize, x) ==
  ((2 * x + 1) * inSize) \div (2 * outSize)
    - (IF <<inSize, outSize, x>> \in NearestShort THEN 1 ELSE 0)
ResampleNearest(pix, w, ht, w2, ht2) ==
  [p \in Coords(w2, ht2) |->
     pix[<<NearestIndex(w, w2, p[1]), NearestIndex(ht, ht2, p[2])>>]]

\* clothing_image.resize((w, ht), LANCZOS) (line 140): a copy when the size is
\* unchanged, ValueError("height and width must be > 0") for an empty target,
\* otherwise a new image of the requested size with the mode, palette and info
\* of the source.  P and 1 images are resized with NEAREST whatever filter was
\* asked for, LA and RGBA with premultiplied alpha, the others band by band.
Image_resize(h, img, w, ht) ==
  IF w = img.w /\ ht = img.h
  THEN [raised |-> FALSE] @@ Image_copy(h, img)
  ELSE IF w < 1 \/ ht < 1
  THEN [raised |-> TRUE, heap |-> h, img |-> NoImage]
  ELSE LET src == h[img.buf]
           n == Bands(img.mode)
           pre == [p \in DOMAIN src |-> Premultiply(src[p], n)]
           res == ImagingResample(pre, img.w, img.h, w, ht)
       IN [raised |-> FALSE] @@
          Image_new(h, img, w, ht,
                CASE img.mode \in {"1", "P"} ->
                       ResampleNearest(src, img.w, img.h, w, ht)
                  [] img.mode \in {"LA", "RGBA"} ->
                       [p \in DOMAIN res |-> Unpremultiply(res[p], n)]
                  [] OTHER -> ImagingResample(src, img.w, img.h, w, ht))

\* PIL's blend of one band under an 8-bit mask (Paste.c, BLEND).
BLEND(mask, in1, in2) == DIV255(in1 * (255 - mask) + in2 * mask)

\* ImagingPaste's clipping of the box (dx0, dy0, dx0 + xsize, dy0 + ysize) to
\* the destination: where writing starts in the destination (dx, dy) and in
\* the source (sx, sy), and how much is written.
\* (ClipBoxNoShift: the source start is not moved by what is cut off.)
ClipBoxNoShift(dx0, dy0, xsize, ysize, W, H) ==
  LET dx == IF dx0 < 0 THEN 0 ELSE dx0
      dy == IF dy0 < 0 THEN 0 ELSE dy0
      xs == IF dx0 < 0 THEN xsize + dx0 ELSE xsize
      ys == IF dy0 < 0 THEN ysize + dy0 ELSE ysize
  IN [dx |-> dx, dy |-> dy, sx |-> 0, sy |-> 0,
      xsize |-> IF dx + xs > W THEN W - dx ELSE xs,
      ysize |-> IF dy + ys > H THEN H - dy ELSE ys]
ClipBox(dx0, dy0, xsize, ysize, W, H) ==
  LET dx == IF dx0 < 0 THEN 0 ELSE dx0
      dy == IF dy0 < 0 THEN 0 ELSE dy0
      xs == IF dx0 < 0 THEN xsize + dx0 ELSE xsize
      ys == IF dy0 < 0 THEN ysize + dy0 ELSE ysize
  IN [dx |-> dx, dy |-> dy,
      sx |-> IF dx0 < 0 THEN -dx0 ELSE 0,
      sy |-> IF dy0 < 0 THEN -dy0 ELSE 0,
      xsize |-> IF dx + xs > W THEN W - dx ELSE xs,
      ysize |-> IF dy + ys > H THEN H - dy ELSE ys]

\* One destination pixel after the paste: every band of the destination is
\* blended with the same band of the source under the mask's alpha.
PastePixel(out, in, mask) == [b \in DOMAIN out |-> BLEND(mask[4], out[b], in[b])]

\* C's integer division rounds toward zero.
TruncDiv(a, b) == IF a >= 0 THEN a \div b ELSE -((-a) \div b)

\* convert("1") of an RGBA image: the C converter refuses RGBA with dithering,
\* Image.convert falls back to RGB first (alpha is dropped) and then dithers
\* (Convert.c, tobilevel): Floyd-Steinberg error diffusion over the rows, the
\* errors of a row carried into the next one.
\* One pixel: st holds the running error l, the sums l0 and l1 for the row below,
\* the errors of the row above (errors, positions 0..w) and the output so far,
\* row after row.
DitherPixel(st, px, x) ==
  LET lum == px[1] * 299 + px[2] * 587 + px[3] * 114
      l == Clip8(lum \div 1000 + TruncDiv(st.l + st.errors[x + 1], 16))
      out == IF l > 128 THEN 255 ELSE 0
      e == l - out
  IN [l |-> 7 * e, l0 |-> 5 * e + st.l1, l1 |-> e,
      errors |-> [st.errors EXCEPT ![x] = 3 * e + st.l0],
      out |-> Append(st.out, out)]
\* Row y from the first pixel that has no output yet to the end of the row.
RECURSIVE DitherRow(_, _, _, _)
DitherRow(pix, w, y, st) ==
  LET x == Len(st.out) - y * w
  IN IF x = w THEN [st EXCEPT !.errors[w] = st.l0]
     ELSE DitherRow(pix, w, y, DitherPixel(st, pix[<<x, y>>], x))
\* The rows that have no output yet.
RECURSIVE DitherRows(_, _, _, _)
DitherRows(pix, w, ht, st) ==
  LET y == Len(st.out) \div w
  IN IF y = ht THEN [p \in Coords(w, ht) |-> <<st.out[p[2] * w + p[1] + 1]>>]
     ELSE DitherRows(pix, w, ht,
                     DitherRow(pix, w, y, [st EXCEPT !.l = 0, !.l0 = 0, !.l1 = 0]))
tobilevel(pix, w, ht) ==
  DitherRows(pix, w, ht,
             [l |-> 0, l0 |-> 0, l1 |-> 0, errors |-> [x \in 0..w |-> 0],
              out |-> <<>>])

\* convert("P") of an RGBA image is self.quantize(256), which takes the fast
\* octree for RGBA.  All fully transparent pixels are given the colour of the
\* first of them; a pixel falls into the bucket of the top 3, 4, 3 and 3 bits
\* of its bands; while the image uses no more buckets than the palette has
\* entries, every used bucket gets an entry of its own, the buckets ordered by
\* falling pixel count.  The order of buckets of equal count is left to
\* qsort: QuantizeRankings is every order the sort can give.
QuantizeNormal(pix, w, ht) ==
  LET clear == {p \in DOMAIN pix : pix[p][4] = 0}
      first == CHOOSE p \in clear :
                 \A q \in clear : q[2] > p[2] \/ (q[2] = p[2] /\ q[1] >= p[1])
  IN [p \in DOMAIN pix |->
        IF pix[p][4] = 0
        THEN <<pix[first][1], pix[first][2], pix[first][3], 0>>
        ELSE pix[p]]
Bucket(px) == <<px[1] \div 32, px[2] \div 16, px[3] \div 32, px[4] \div 32>>
QuantizeRankings(pix, w, ht) ==
  LET norm == QuantizeNormal(pix, w, ht)
      used == {Bucket(norm[p]) : p \in DOMAIN norm}
      Count(bk) == Cardinality({p \in DOMAIN norm : Bucket(norm[p]) = bk})
  IN {rk \in [used -> 0..(Cardinality(used) - 1)] :
        /\ \A b1, b2 \in used : b1 # b2 => rk[b1] # rk[b2]
        /\ \A b1, b2 \in used : Count(b1) > Count(b2) => rk[b1] < rk[b2]}
quantize(pix, w, ht, rk) ==
  LET norm == QuantizeNormal(pix, w, ht)
  IN [p \in DOMAIN pix |-> <<rk[Bucket(norm[p])]>>]

\* One pixel of an RGBA image converted to L, LA or CMYK (Convert.c: rgb2l,
\* rgba2la, rgb2cmyk).
ConvertPixel(px, to) ==
  CASE to = "L" -> <<Luma(px)>>
    [] to = "LA" -> <<Luma(px), px[4]>>
    [] to = "CMYK" -> <<255 - px[1], 255 - px[2], 255 - px[3], 0>>

\* What Image.paste hands to ImagingPaste as the source: the RGBA source is
\* converted to the destination's mode first, unless the destination is RGBA
\* or RGB (the colour bands are read as they are).  The mask is not converted.
\* rk is the order the quantiser's sort gave (used for a P destination only).
\* (An I;16 destination never gets here: showing it has raised.)
PasteSource(pix, w, ht, to, rk) ==
  CASE to \in {"RGBA", "RGB"} -> pix
    [] to = "1" -> tobilevel(pix, w, ht)
    [] to = "P" -> quantize(pix, w, ht, rk)
    [] OTHER -> [p \in DOMAIN pix |-> ConvertPixel(pix[p], to)]
PasteRankings(pix, w, ht, to) ==
  IF to = "P" THEN QuantizeRankings(pix, w, ht) ELSE {<<>>}

\* background.paste(overlay_img, position, overlay_img) (line 36) with an RGBA
\* source that is its own mask: the destination's buffer is changed in place.
Image_paste(h, dst, src, pos, mask, rk) ==
  LET c == ClipBox(pos[1], pos[2], src.w, src.h, dst.w, dst.h)
      Covered(p) == /\ c.xsize > 0 /\ c.ysize > 0
                    /\ p[1] >= c.dx /\ p[1] < c.dx + c.xsize
                    /\ p[2] >= c.dy /\ p[2] < c.dy + c.ysize
      From(p) == <<p[1] - c.dx + c.sx, p[2] - c.dy + c.sy>>
      im == PasteSource(h[src.buf], src.w, src.h, dst.mode, rk)
  IN [h EXCEPT ![dst.buf] =
        [p \in Coords(dst.w, dst.h) |->
           IF Covered(p)
           THEN PastePixel(h[dst.buf][p], im[From(p)], h[mask.buf][From(p)])
           ELSE h[dst.buf][p]]]

\* overlay_image (lines 29-37)
\* (overlay_image_onto_overlay: the converted overlay returned as the result.)
overlay_image_onto_overlay(h, background_img, overlay_img, pos, rk) ==
  LET ov == Image_convert_RGBA(h, overlay_img)
  IN [heap |-> ov.heap, img |-> ov.img]
overlay_image(h, background_img, overlay_img, pos, rk) ==
  LET bg == Image_copy(h, background_img)
      ov == Image_convert_RGBA(bg.heap, overlay_img)
      pasted == Image_paste(ov.heap, bg.img, ov.img, pos, ov.img, rk)
  IN [heap |-> [i \in DOMAIN pasted \ {ov.img.buf} |-> pasted[i]], img |-> bg.img]
\* The orders the quantiser's sort can give for this overlay on this background.
overlay_rankings(h, background_img, overlay_img) ==
  PasteRankings([p \in Coords(overlay_img.w, overlay_img.h) |->
                   ToRGBA(h[overlay_img.buf][p], overlay_img)],
                overlay_img.w, overlay_img.h, background_img.mode)

\* position_x / position_y (lines 143-144): centre, then the offset; // floors.
\* (PositionAxisTrunc: the half rounded toward zero.)
PositionAxisTrunc(outer, inner, offset) ==
  (IF outer >= inner THEN (outer - inner) \div 2 ELSE -((inner - outer) \div 2)) + offset
PositionAxis(outer, inner, offset) == (outer - inner) \div 2 + offset

\* The values the offset sliders offer (lines 134-135): -extent // 2 is
\* (-extent) // 2 in Python.
OffsetValues(extent) == ((-extent) \div 2)..(extent \div 2)

\* ------------------------------------------------------------------ state
VARIABLES
  photo,                    \* the picture the user has to upload
  avatar_file,              \* images/avatars/avatar.png
  upload_file,              \* images/<uploaded_file.name>
  clothing_file,            \* images/clothing/<image_file of the catalog row>
  csv_file,                 \* clothing_data.csv: "missing", "malformed", "empty", "ok"
  session_user_image_path,  \* st.session_state.user_image_path: "unset", "avatar", "upload"
  pc,                       \* where the script run is
  exception,                \* the exception that ended the run, or "none"
  messages,                 \* what st.error / st.warning / st.success have shown
  user_image,
  clothing_options,
  selected_clothing_name,   \* "unbound" while the name was never assigned
  clothing_image,
  scale, x_offset, y_offset,
  clothing_width, clothing_height,
  clothing_image_resized,
  position,
  final_image,
  heap                      \* the pixel buffers of the images of this run

files == <<photo, avatar_file, upload_file, clothing_file, csv_file>>
fitting == <<scale, x_offset, y_offset, clothing_width, clothing_height,
             clothing_image_resized, position, final_image>>
vars == <<files, session_user_image_path, pc, exception, messages, user_image,
          clothing_options, selected_clothing_name, clothing_image, fitting, heap>>

\* The catalog of the model: one row.
CatalogName == "shirt"

\* The user photos: an RGB photo of every size up to MaxW x MaxH, an RGBA one
\* (a PNG with transparency) of the largest size, and one photo of every other
\* mode: greyscale (L), greyscale with alpha (LA) and palette (P, with tRNS)
\* one pixel high, CMYK (a JPEG) and bilevel one pixel wide, and a 16-bit
\* greyscale PNG of one pixel.
Photos ==
  {ImageFile(w, h, "RGB", "none", 10) : w \in 1..MaxW, h \in 1..MaxH}
    \cup {ImageFile(MaxW, MaxH, "RGBA", "mixed", 10),
          ImageFile(MaxW, 1, "L", "none", 10),
          ImageFile(MaxW, 1, "LA", "mixed", 10),
          ImageFile(MaxW, 1, "P", "mixed", 10),
          ImageFile(1, MaxH, "CMYK", "none", 10),
          ImageFile(1, MaxH, "1", "none", 10),
          ImageFile(1, 1, "I;16", "none", 10)}

\* The clothing images: a partly transparent RGBA image of every size up to
\* MaxCW x MaxCH, an opaque RGBA image of the largest size, a one-pixel image
\* without alpha and a fully transparent one.
Clothes ==
  {ImageFile(w, h, "RGBA", "mixed", 140) : w \in 1..MaxCW, h \in 1..MaxCH}
    \cup {ImageFile(MaxCW, MaxCH, "RGBA", "opaque", 140),
          ImageFile(1, 1, "RGB", "none", 140),
          ImageFile(1, 1, "RGBA", "clear", 140)}

\* Clothing images of the other modes: greyscale without and with alpha, CMYK
\* and RGB with a transparent colour, of the largest width and one pixel high;
\* bilevel and palette with tRNS, of the largest size; and a 16-bit greyscale
\* PNG of one pixel.
ModeClothes ==
  {ImageFile(MaxCW, 1, "L", "none", 140),
   ImageFile(MaxCW, 1, "LA", "mixed", 140),
   ImageFile(MaxCW, 1, "CMYK", "none", 140),
   ImageFile(MaxCW, 1, "RGB", "key", 140),
   ImageFile(MaxCW, MaxCH, "1", "none", 140),
   ImageFile(MaxCW, MaxCH, "P", "mixed", 140),
   ImageFile(1, 1, "I;16", "none", 140)}

\* A clothing image 25 pixels wide, of one colour: the narrowest width at which
\* the double product width * scale falls short of an integer (25 * 4.6).
WideClothes == {FlatFile(25, 1, "RGB", "none", 140)}

\* The names of a script run before any statement ran.
FreshRun ==
  /\ pc = "col1"
  /\ exception = "none"
  /\ messages = {}
  /\ user_image = NoImage
  /\ clothing_options = {}
  /\ selected_clothing_name = "unbound"
  /\ clothing_image = NoImage
  /\ scale = 0 /\ x_offset = 0 /\ y_offset = 0
  /\ clothing_width = 0 /\ clothing_height = 0
  /\ clothing_image_resized = NoImage
  /\ position = <<0, 0>>
  /\ final_image = NoImage
  /\ heap = EmptyHeap

\* First run of a new session with a saved avatar and a working catalog: every
\* photo with the one-pixel clothing image without alpha, the largest RGB
\* photo with every clothing image, and the photos of the other modes with the
\* widest partly transparent clothing image (the palette photo with the fully
\* transparent one: its overlay is quantised).
InitFit ==
  /\ photo \in Photos
  /\ clothing_file \in Clothes \cup ModeClothes \cup WideClothes
  /\ \/ clothing_file = ImageFile(1, 1, "RGB", "none", 140)
     \/ photo = ImageFile(MaxW, MaxH, "RGB", "none", 10)
     \/ /\ photo.mode \in {"RGBA", "L", "LA", "CMYK", "1"}
        /\ clothing_file = ImageFile(MaxCW, 1, "RGBA", "mixed", 140)
     \/ /\ photo.mode = "P"
        /\ clothing_file = ImageFile(1, 1, "RGBA", "clear", 140)
  /\ avatar_file = photo
  /\ upload_file = MissingFile
  /\ csv_file = "ok"
  /\ session_user_image_path = "unset"
  /\ FreshRun

\* First run of a new session in every condition of the disk, with an RGB, a
\* CMYK or a 16-bit greyscale photo and one clothing image.
InitFlow ==
  /\ photo \in {ImageFile(MaxW, MaxH, "RGB", "none", 10),
                ImageFile(MaxW, MaxH, "CMYK", "none", 10),
                ImageFile(1, 1, "I;16", "none", 10)}
  /\ avatar_file \in {MissingFile, BadFile, photo}
  /\ upload_file = MissingFile
  /\ clothing_file \in {MissingFile, BadFile, ImageFile(1, 1, "RGBA", "mixed", 140)}
  /\ csv_file \in {"missing", "malformed", "empty", "ok"}
  /\ session_user_image_path = "unset"
  /\ FreshRun

Init == InitFlow

\* An uncaught exception ends the run: Streamlit shows it and runs no further
\* statement of the script.
Raise(name) ==
  /\ pc' = "crashed"
  /\ exception' = name

PathFile(path, avatar, upload) ==
  IF path = "avatar" THEN avatar ELSE upload

\* "Your Photo" column (lines 52-86).  uploaded is what the file uploader
\* holds (MissingFile: nothing), button whether "Save as My Avatar" is pressed.
\* The photo is shown (line 80) before the button is looked at.
\* Image.save opens avatar.png for writing before the PNG writer looks at the
\* mode: when the writer raises, a file that was there is left empty, and a
\* file that save created is left empty or removed again, by the PIL release.
Col1(uploaded, button) ==
  /\ pc = "col1"
  /\ LET afterAvatar ==
           IF session_user_image_path = "unset" /\ avatar_file.status # "missing"
           THEN "avatar" ELSE session_user_image_path
         path == IF uploaded.status # "missing" THEN "upload" ELSE afterAvatar
         written == IF uploaded.status # "missing" THEN uploaded ELSE upload_file
         r == load_image(heap, PathFile(path, avatar_file, written))
     IN /\ session_user_image_path' = path
        /\ upload_file' = written
        /\ IF path = "unset"
           THEN /\ pc' = "col2"
                /\ UNCHANGED <<exception, messages, user_image, heap, avatar_file>>
           ELSE CASE r.outcome = "raise" ->
                       /\ Raise("UnidentifiedImageError")
                       /\ UNCHANGED <<messages, user_image, heap, avatar_file>>
                  [] r.outcome = "none" ->
                       /\ pc' = "col2"
                       /\ messages' = messages \cup {"error: image not found"}
                       /\ user_image' = NoImage
                       /\ UNCHANGED <<exception, heap, avatar_file>>
                  [] ~CanShow(r.img.mode) ->
                       /\ Raise("OSError")
                       /\ user_image' = r.img
                       /\ heap' = r.heap
                       /\ UNCHANGED <<messages, avatar_file>>
                  [] button /\ ~CanWritePNG(r.img.mode) ->
                       /\ Raise("OSError")
                       /\ user_image' = r.img
                       /\ heap' = r.heap
                       /\ avatar_file' \in
                            IF avatar_file.status = "missing"
                            THEN {MissingFile, BadFile}
                            ELSE {BadFile}
                       /\ UNCHANGED messages
                  [] OTHER ->
                       /\ pc' = "col2"
                       /\ user_image' = r.img
                       /\ heap' = r.heap
                       /\ avatar_file' =
                            IF button THEN PathFile(path, avatar_file, written)
                            ELSE avatar_file
                       /\ messages' =
                            IF button THEN messages \cup {"success: avatar saved"}
                            ELSE messages
                       /\ UNCHANGED exception
  /\ UNCHANGED <<photo, clothing_file, csv_file, clothing_options,
                 selected_clothing_name, clothing_image, fitting>>

\* load_clothing_data (lines 92-103): the catalog, or {} with an error shown.
load_clothing_data(csv) ==
  CASE csv = "missing" -> [options |-> {}, shown |-> {"error: clothing_data.csv not found"}]
    [] csv = "malformed" -> [options |-> {}, shown |-> {"error: loading clothing data"}]
    [] csv = "empty" -> [options |-> {}, shown |-> {}]
    [] OTHER -> [options |-> {CatalogName}, shown |-> {}]

\* "Choose Your Style" column (lines 88-116).  selected_clothing_name is
\* assigned only when the catalog has rows; a clothing image that loaded is
\* shown (line 114).
Col2 ==
  /\ pc = "col2"
  /\ LET d == load_clothing_data(csv_file)
         r == load_image(heap, clothing_file)
     IN /\ clothing_options' = d.options
        /\ IF d.options = {}
           THEN /\ messages' = messages \cup d.shown \cup {"warning: no clothing items"}
                /\ pc' = "guard"
                /\ UNCHANGED <<exception, selected_clothing_name, clothing_image, heap>>
           ELSE /\ selected_clothing_name' = CatalogName
                /\ CASE r.outcome = "raise" ->
                          /\ Raise("UnidentifiedImageError")
                          /\ UNCHANGED <<messages, clothing_image, heap>>
                     [] r.outcome = "none" ->
                          /\ pc' = "guard"
                          /\ messages' = messages \cup d.shown \cup {"error: image not found"}
                          /\ clothing_image' = NoImage
                          /\ UNCHANGED <<exception, heap>>
                     [] ~CanShow(r.img.mode) ->
                          /\ Raise("OSError")
                          /\ messages' = messages \cup d.shown
                          /\ clothing_image' = r.img
                          /\ heap' = r.heap
                     [] OTHER ->
                          /\ pc' = "guard"
                          /\ messages' = messages \cup d.shown
                          /\ clothing_image' = r.img
                          /\ heap' = r.heap
                          /\ UNCHANGED exception
  /\ UNCHANGED <<files, session_user_image_path, user_image, fitting>>

\* The fitting area's guard and reloads (lines 120-128).  `and` evaluates
\* selected_clothing_name only when the session holds a photo path, and
\* reading the unbound name raises NameError.
FittingGuard ==
  /\ pc = "guard"
  /\ IF session_user_image_path = "unset"
     THEN /\ pc' = "sidebar"
          /\ UNCHANGED <<exception, user_image, clothing_image, heap>>
     ELSE IF selected_clothing_name = "unbound"
     THEN /\ Raise("NameError")
          /\ UNCHANGED <<user_image, clothing_image, heap>>
     ELSE LET u == load_image(heap, PathFile(session_user_image_path, avatar_file, upload_file))
              c == load_image(u.heap, clothing_file)
          IN IF u.outcome = "raise" \/ c.outcome = "raise"
             THEN /\ Raise("UnidentifiedImageError")
                  /\ UNCHANGED <<user_image, clothing_image, heap>>
             ELSE /\ user_image' = u.img
                  /\ clothing_image' = c.img
                  /\ heap' = Keep(c.heap, {u.img, c.img})
                  /\ pc' = IF IsImage(u.img) /\ IsImage(c.img) THEN "fitting" ELSE "sidebar"
                  /\ UNCHANGED exception
  /\ messages' =
       IF /\ session_user_image_path # "unset"
          /\ selected_clothing_name # "unbound"
          /\ \/ PathFile(session_user_image_path, avatar_file, upload_file).status = "missing"
             \/ clothing_file.status = "missing"
       THEN messages \cup {"error: image not found"}
       ELSE messages
  /\ UNCHANGED <<files, session_user_image_path, clothing_options,
                 selected_clothing_name, fitting>>

\* The interactive overlay (lines 130-163): the three sliders, the resize, the
\* position, overlay_image, the result shown (line 149) and encoded as PNG for
\* the download button (line 155).
Fitting(s, xo, yo) ==
  /\ pc = "fitting"
  /\ LET cw == IntTimesScale(clothing_image.w, s)
         ch == IntTimesScale(clothing_image.h, s)
         rz == Image_resize(heap, clothing_image, cw, ch)
         pos == <<PositionAxis(user_image.w, cw, xo), PositionAxis(user_image.h, ch, yo)>>
     IN /\ scale' = s
        /\ x_offset' = xo
        /\ y_offset' = yo
        /\ clothing_width' = cw
        /\ clothing_height' = ch
        /\ IF rz.raised
           THEN /\ Raise("ValueError")
                /\ UNCHANGED <<clothing_image_resized, position, final_image, heap>>
           ELSE /\ clothing_image_resized' = rz.img
                /\ position' = pos
                /\ \E rk \in overlay_rankings(rz.heap, user_image, rz.img) :
                     LET ov == overlay_image(rz.heap, user_image, rz.img, pos, rk)
                     IN /\ final_image' = ov.img
                        /\ heap' = ov.heap
                        /\ IF CanWritePNG(ov.img.mode)
                           THEN pc' = "sidebar" /\ UNCHANGED exception
                           ELSE Raise("OSError")
  /\ UNCHANGED <<files, session_user_image_path, messages, user_image,
                 clothing_options, selected_clothing_name, clothing_image>>

FittingArea ==
  /\ pc = "fitting"
  /\ \E s \in ScaleValues, xo \in OffsetValues(user_image.w),
        yo \in OffsetValues(user_image.h) :
          Fitting(s, xo, yo)

\* The names of a script run go when the run is over.
DropNames ==
  /\ user_image' = NoImage
  /\ clothing_options' = {}
  /\ selected_clothing_name' = "unbound"
  /\ clothing_image' = NoImage
  /\ scale' = 0 /\ x_offset' = 0 /\ y_offset' = 0
  /\ clothing_width' = 0 /\ clothing_height' = 0
  /\ clothing_image_resized' = NoImage
  /\ position' = <<0, 0>>
  /\ final_image' = NoImage
  /\ heap' = EmptyHeap

\* The instructions in the sidebar (lines 165-174): the script ends and its
\* names are dropped.
Sidebar ==
  /\ pc = "sidebar"
  /\ pc' = "done"
  /\ DropNames
  /\ UNCHANGED <<files, session_user_image_path, exception, messages>>

\* Any interaction makes Streamlit run the script again from the top with the
\* same session state.
Rerun ==
  /\ pc \in {"done", "crashed"}
  /\ pc' = "col1"
  /\ exception' = "none"
  /\ messages' = {}
  /\ DropNames
  /\ UNCHANGED <<files, session_user_image_path>>

\* Between runs a photo file can disappear from the disk while the session
\* still holds its path (the case load_image's FileNotFoundError is for).
RemovePhotoFile ==
  /\ pc = "done"
  /\ session_user_image_path # "unset"
  /\ PathFile(session_user_image_path, avatar_file, upload_file).status # "missing"
  /\ IF session_user_image_path = "avatar"
     THEN avatar_file' = MissingFile /\ UNCHANGED upload_file
     ELSE upload_file' = MissingFile /\ UNCHANGED avatar_file
  /\ UNCHANGED <<photo, clothing_file, csv_file, session_user_image_path, pc,
                 exception, messages, user_image, clothing_options,
                 selected_clothing_name, clothing_image, fitting, heap>>

Upload == \E uploaded \in {MissingFile, BadFile, photo}, button \in BOOLEAN :
            Col1(uploaded, button)

Next ==
  \/ Upload
  \/ Col2
  \/ FittingGuard
  \/ FittingArea
  \/ Sidebar
  \/ Rerun
  \/ RemovePhotoFile

Spec == Init /\ [][Next]_vars

\* One run of the script for a user who comes back to a saved avatar and
\* uploads nothing.
FirstVisit == Col1(MissingFile, FALSE)

NextFit ==
  \/ FirstVisit
  \/ Col2
  \/ FittingGuard
  \/ FittingArea
  \/ Sidebar

SpecFit == InitFit /\ [][NextFit]_vars

\* ------------------------------------------------------------ properties
\* overlay_image has returned: the run holds a final image.
Fitted == IsImage(final_image)
\* The sliders were read in this run (the overlay step began).
SlidersRead == scale # 0

UserFile == PathFile(session_user_image_path, avatar_file, upload_file)
BasePix(p) == heap[user_image.buf][p]
FinalPix(p) == heap[final_image.buf][p]
\* A pixel of the resized overlay as colour and alpha.
OverPix(q) == ToRGBA(heap[clothing_image_resized.buf][q], clothing_image_resized)
OverCoords == Coords(clothing_image_resized.w, clothing_image_resized.h)
BaseCoords == Coords(user_image.w, user_image.h)
\* The overlay pixel that lands on canvas pixel p when pasted at pos.
Under(p, pos) == <<p[1] - pos[1], p[2] - pos[2]>>
\* The overlay as an image of the photo's mode holds it: one image, except
\* for a palette photo, where the order of the palette entries is open.
OverlayAsPhoto ==
  LET pix == [q \in OverCoords |-> OverPix(q)]
      w == clothing_image_resized.w
      ht == clothing_image_resized.h
  IN {PasteSource(pix, w, ht, user_image.mode, rk) :
        rk \in PasteRankings(pix, w, ht, user_image.mode)}

\* C1: the final image has exactly the width and height of the user photo,
\* whatever the overlay size, scale and offsets.
C1_OutputSizeIsBaseSize ==
  IsImage(final_image) =>
    /\ final_image.w = user_image.w
    /\ final_image.h = user_image.h
    /\ DOMAIN heap[final_image.buf] = BaseCoords
C1_Witness ==
  /\ Fitted
  /\ clothing_image_resized.w > user_image.w
  /\ clothing_image_resized.h > user_image.h
  /\ position[1] < 0
  /\ x_offset # 0
  /\ scale # ScaleDen

\* C2 (as claimed): a missing or undecodable image never ends the run with an
\* exception, and no composite is made from it.
C2_BadImageIsNonFatal ==
  /\ exception # "UnidentifiedImageError"
  /\ IsImage(final_image) => (UserFile.status = "ok" /\ clothing_file.status = "ok")

\* C3 (as claimed): with clothing_data.csv missing the run shows the warning,
\* offers nothing, makes no composite and ends normally, also when the session
\* holds a photo path.
C3_MissingCatalogIsNonFatal ==
  csv_file = "missing" =>
    /\ exception # "NameError"
    /\ clothing_options = {}
    /\ ~IsImage(final_image)
    /\ pc \in {"guard", "sidebar"} => "warning: no clothing items" \in messages

\* C4 (as claimed): each requested dimension is the nearest integer to
\* dimension * scale.
NearestInteger(c, dim, k) == 2 * Abs(ScaleDen * c - dim * k) <= ScaleDen
C4_ResizeRounds ==
  Fitted =>
    /\ NearestInteger(clothing_image_resized.w, clothing_image.w, scale)
    /\ NearestInteger(clothing_image_resized.h, clothing_image.h, scale)
\* C4 (amended): each requested dimension is dimension * scale truncated: the
\* floor of the exact product, or one less when the exact product is an integer
\* the double product falls short of, which needs a scale that is no binary
\* fraction and a dimension of at least 25; 200 at 0.5 gives 100.
Truncated(c, dim, k) ==
  /\ ScaleDen * c <= dim * k
  /\ dim * k <= ScaleDen * (c + 1)
  /\ dim * k = ScaleDen * (c + 1) => (k % 5 # 0 /\ dim >= 25)
C4_ResizeTruncates ==
  /\ SlidersRead =>
       /\ Truncated(clothing_width, clothing_image.w, scale)
       /\ Truncated(clothing_height, clothing_image.h, scale)
  /\ Fitted =>
       /\ clothing_image_resized.w = clothing_width
       /\ clothing_image_resized.h = clothing_height
  /\ IntTimesScale(200, 10) = 100
C4_Witness ==
  /\ Fitted
  /\ 2 * ((clothing_image.w * scale) % ScaleDen) > ScaleDen
  /\ clothing_image.w * scale > ScaleDen * clothing_width

\* C5 (as claimed): the offsets the sliders supply are at most half the photo's
\* width and height in absolute value.
C5_OffsetsWithinHalf ==
  Fitted =>
    /\ 2 * Abs(x_offset) <= user_image.w
    /\ 2 * Abs(y_offset) <= user_image.h

\* C6 (as claimed): an opaque overlay pasted within the canvas makes every
\* pixel it covers equal to the overlay's pixel and leaves the others as in the
\* photo; a fully transparent overlay leaves every pixel as in the photo.
OverlayOpaque == \A q \in OverCoords : OverPix(q)[4] = 255
OverlayClear == \A q \in OverCoords : OverPix(q)[4] = 0
InBounds ==
  /\ position[1] >= 0 /\ position[1] + clothing_image_resized.w <= user_image.w
  /\ position[2] >= 0 /\ position[2] + clothing_image_resized.h <= user_image.h
C6_AlphaCorrect ==
  Fitted =>
    /\ (OverlayOpaque /\ InBounds) =>
         \A p \in BaseCoords :
           IF Under(p, position) \in OverCoords
           THEN \A b \in DOMAIN FinalPix(p) : FinalPix(p)[b] = OverPix(Under(p, position))[b]
           ELSE FinalPix(p) = BasePix(p)
    /\ OverlayClear => \A p \in BaseCoords : FinalPix(p) = BasePix(p)

\* C7: an overlay that reaches beyond the canvas is clipped without error:
\* overlay_image returns whenever the resize did, only canvas pixels exist in
\* the result, each canvas pixel under the overlay is blended with the overlay
\* pixel (x - position.x, y - position.y), taken in the photo's mode, and every
\* other pixel is as in the photo.
C7_Clipping ==
  /\ Fitted =>
       /\ DOMAIN heap[final_image.buf] = BaseCoords
       /\ \E src \in OverlayAsPhoto : \A p \in BaseCoords :
            FinalPix(p) =
              IF Under(p, position) \in OverCoords
              THEN [b \in DOMAIN BasePix(p) |->
                      BLEND(OverPix(Under(p, position))[4], BasePix(p)[b],
                            src[Under(p, position)][b])]
              ELSE BasePix(p)
  /\ (SlidersRead /\ clothing_width >= 1 /\ clothing_height >= 1) =>
       (Fitted /\ exception \in {"none", "OSError"})
C7_Witness ==
  /\ Fitted
  /\ position[1] < 0
  /\ position[1] + clothing_image_resized.w > user_image.w
  /\ position[2] < 0
  /\ \E p \in BaseCoords : FinalPix(p) # BasePix(p)

\* C8: the overlay is pasted at ((W - w) // 2 + x_offset, (H - h) // 2 +
\* y_offset), // flooring, W x H the photo and w x h the resized overlay, also
\* when the overlay is the larger; a 200x200 overlay at scale 1.0 and offset
\* (0, 0) on a 400x600 photo goes to (100, 200), so that pixel (150, 250) comes
\* from overlay pixel (50, 50) and pixel (10, 10) stays; under an opaque
\* overlay a pixel is the overlay's pixel at that place, in the photo's mode.
FloorHalf(c, d) == 2 * c <= d /\ d <= 2 * c + 1
C8_Scenario ==
  LET w == IntTimesScale(200, ScaleDen)
      h == IntTimesScale(200, ScaleDen)
      px == PositionAxis(400, w, 0)
      py == PositionAxis(600, h, 0)
      c == ClipBox(px, py, w, h, 400, 600)
      Written(x, y) == /\ x >= c.dx /\ x < c.dx + c.xsize
                       /\ y >= c.dy /\ y < c.dy + c.ysize
  IN /\ <<w, h>> = <<200, 200>>
     /\ <<px, py>> = <<100, 200>>
     /\ Written(150, 250)
     /\ <<150 - c.dx + c.sx, 250 - c.dy + c.sy>> = <<50, 50>>
     /\ ~Written(10, 10)
C8_PastePosition ==
  /\ Fitted =>
       /\ FloorHalf(position[1] - x_offset, user_image.w - clothing_image_resized.w)
       /\ FloorHalf(position[2] - y_offset, user_image.h - clothing_image_resized.h)
       /\ \E src \in OverlayAsPhoto : \A p \in BaseCoords :
            (OverlayOpaque /\ Under(p, position) \in OverCoords) =>
              \A b \in DOMAIN FinalPix(p) :
                FinalPix(p)[b] = src[Under(p, position)][b]
  /\ C8_Scenario
C8_Witness ==
  /\ Fitted
  /\ clothing_image_resized.w > user_image.w
  /\ (clothing_image_resized.w - user_image.w) % 2 = 1
  /\ clothing_image_resized.h > user_image.h
  /\ (clothing_image_resized.h - user_image.h) % 2 = 1

\* C9: overlay_image leaves the photo it is given as it was decoded from its
\* file, and the result has a pixel buffer of its own, so that neither image
\* changes with the other.
C9_BaseUntouched ==
  Fitted =>
    /\ final_image.buf # user_image.buf
    /\ final_image.buf # clothing_image_resized.buf
    /\ heap[user_image.buf] = Pixels(UserFile)
C9_Witness ==
  /\ Fitted
  /\ \E p \in BaseCoords : FinalPix(p) # BasePix(p)
  /\ \E p \in BaseCoords : FinalPix(p) = BasePix(p)

\* C10 (as claimed): the size handed to resize is at least 1 x 1.
C10_ResizeTargetPositive ==
  SlidersRead => (clothing_width >= 1 /\ clothing_height >= 1)

====
